---- MODULE Spec2Model ----
(***************************************************************************)
(* DC-DC converter simulation (main.py): the three averaged derivative     *)
(* models buck, buck_boost and buck_boost_clamped, and main's driver, which *)
(* builds a time grid with np.arange, integrates with odeint and plots.     *)
(*                                                                         *)
(* Numbers.  A Python/numpy number is a record [n, d, np]:                  *)
(*   d > 0        the finite value n/d, in lowest terms;                    *)
(*   d = 0        a non-finite float: n = 0 NaN, n = 1 +inf, n = -1 -inf;   *)
(*   d < 0        no value: the expression raised ZeroDivisionError;        *)
(*   np           TRUE for a numpy float64 (an element of the array odeint  *)
(*                hands to the derivative function), FALSE for a Python     *)
(*                scalar.  numpy division by zero gives inf/NaN with a      *)
(*                warning; Python scalar division by zero raises.           *)
(* Finite arithmetic is exact rational arithmetic: float rounding, float    *)
(* overflow and the sign of zero are not modelled.                          *)
(***************************************************************************)
EXTENDS Integers, Sequences, FiniteSets

VARIABLES
    pc,        \* position of the driver (main) or of the direct call
    topology,  \* the derivative function passed to odeint / called
    args,      \* main's parameters L, R, C, Uav, E (lines 39-43, args of line 56)
    x0,        \* initial conditions (line 52) / the state argument x
    t_ini, t_stop, t_step,  \* lines 46-48
    tvec,      \* the time vector t of line 49
    tcall,     \* the time argument of a direct call
    nsub,      \* internal solver steps per output interval (solver's choice)
    k,         \* number of rows of sol already produced
    sol,       \* odeint's output array, one row per time sample
    i_plot, v_plot,    \* sol[:, 0] and sol[:, 1] (lines 57-58)
    exc,       \* the exception that ended the run, or "none"
    nfev,      \* derivative evaluations made so far in this run
    runs,      \* how many times the driver has been started
    sol1,      \* the trajectory the first run returned
    ret        \* the value a direct call returned

vars == <<pc, topology, args, x0, t_ini, t_stop, t_step, tvec, tcall, nsub,
          k, sol, i_plot, v_plot, exc, nfev, runs, sol1, ret>>

----------------------------------------------------------------------------
(* Number representation and float arithmetic *)

Abs(n) == IF n < 0 THEN -n ELSE n

Sgn(n) == IF n < 0 THEN -1 ELSE IF n > 0 THEN 1 ELSE 0

RECURSIVE GCD(_, _)
GCD(a, b) == IF b = 0 THEN a ELSE GCD(b, a % b)

\* The finite value n/d (d # 0) in lowest terms with a positive denominator.
Mk(n, d, np) ==
    LET g == GCD(Abs(n), Abs(d))
    IN  [n |-> Sgn(d) * (n \div g), d |-> Abs(d) \div g, np |-> np]

Py(n) == [n |-> n, d |-> 1, np |-> FALSE]

Np(n) == [n |-> n, d |-> 1, np |-> TRUE]

Frac(n, d) == Mk(n, d, FALSE)

NaN(np) == [n |-> 0, d |-> 0, np |-> np]

Inf(s, np) == [n |-> s, d |-> 0, np |-> np]

RAISE == [n |-> 0, d |-> -1, np |-> FALSE]

IsRaise(a) == a.d < 0

IsNaN(a) == a.d = 0 /\ a.n = 0

IsInf(a) == a.d = 0 /\ a.n # 0

IsFinite(a) == a.d > 0

IsZero(a) == a.d > 0 /\ a.n = 0

\* The same float value, whatever the Python type carrying it.
Same(a, b) == a.n = b.n /\ a.d = b.d

\* numpy.float64(a): what odeint stores in its arrays.
AsNp(a) == [a EXCEPT !.np = TRUE]

Neg(a) == IF IsRaise(a) THEN RAISE ELSE [a EXCEPT !.n = -a.n]

Add(a, b) ==
    IF IsRaise(a) \/ IsRaise(b) THEN RAISE
    ELSE LET np == a.np \/ b.np
         IN  IF IsNaN(a) \/ IsNaN(b) THEN NaN(np)
             ELSE IF IsInf(a) /\ IsInf(b)
                  THEN IF a.n = b.n THEN Inf(a.n, np) ELSE NaN(np)
             ELSE IF IsInf(a) THEN Inf(a.n, np)
             ELSE IF IsInf(b) THEN Inf(b.n, np)
             ELSE LET l == (a.d \div GCD(a.d, b.d)) * b.d
                  IN  Mk(a.n * (l \div a.d) + b.n * (l \div b.d), l, np)

Sub(a, b) == Add(a, Neg(b))

Mul(a, b) ==
    IF IsRaise(a) \/ IsRaise(b) THEN RAISE
    ELSE LET np == a.np \/ b.np
         IN  IF IsNaN(a) \/ IsNaN(b) THEN NaN(np)
             ELSE IF IsInf(a) \/ IsInf(b)
                  THEN IF a.n = 0 \/ b.n = 0 THEN NaN(np)
                       ELSE Inf(Sgn(a.n) * Sgn(b.n), np)
             ELSE LET g1 == GCD(Abs(a.n), b.d)
                      g2 == GCD(Abs(b.n), a.d)
                  IN  Mk((a.n \div g1) * (b.n \div g2),
                         (a.d \div g2) * (b.d \div g1), np)

\* a / b.  Two Python scalars: ZeroDivisionError on a zero divisor.  A numpy
\* operand: IEEE division (x/0 = +-inf, 0/0 = NaN) and a RuntimeWarning.
Div(a, b) ==
    IF IsRaise(a) \/ IsRaise(b) THEN RAISE
    ELSE LET np == a.np \/ b.np
         IN  IF IsZero(b)
             THEN IF ~np THEN RAISE
                  ELSE IF a.n = 0 THEN NaN(np) ELSE Inf(Sgn(a.n), np)
             ELSE IF IsNaN(a) \/ IsNaN(b) THEN NaN(np)
             ELSE IF IsInf(b)
                  THEN IF IsInf(a) THEN NaN(np) ELSE Mk(0, 1, np)
             ELSE IF IsInf(a) THEN Inf(Sgn(a.n) * Sgn(b.n), np)
             ELSE Mul(a, Mk(b.d, b.n, np))

\* a < b on floats: FALSE whenever an operand is NaN.
Lt(a, b) ==
    /\ ~IsRaise(a) /\ ~IsRaise(b)
    /\ ~IsNaN(a) /\ ~IsNaN(b)
    /\ IF IsInf(a) \/ IsInf(b)
       THEN (IF IsInf(a) THEN a.n ELSE 0) < (IF IsInf(b) THEN b.n ELSE 0)
       ELSE a.n * b.d < b.n * a.d

Le(a, b) ==
    /\ ~IsRaise(a) /\ ~IsRaise(b)
    /\ ~IsNaN(a) /\ ~IsNaN(b)
    /\ ~Lt(b, a)

\* Python's max(a, b): b when b > a, else a (so a NaN first argument stays).
Max(a, b) == IF Lt(a, b) THEN b ELSE a

----------------------------------------------------------------------------
(* The derivative models.  x is the pair <<i, v>>; each returns the pair     *)
(* <<di_dt, dv_dt>>, a component being RAISE when its expression raised.     *)

One == Py(1)

Zero == Py(0)

\* buck with the two derivatives returned in the wrong order.
buck_transposed(x, t, L, R, C, Uav, E) ==
    LET i == x[1]
        v == x[2]
        di_dt == Sub(Div(Mul(E, Uav), L), Div(v, L))
        dv_dt == Sub(Div(i, C), Div(Div(v, R), C))
    IN  <<dv_dt, di_dt>>

buck(x, t, L, R, C, Uav, E) ==
    LET i == x[1]
        v == x[2]
        di_dt == Sub(Div(Mul(E, Uav), L), Div(v, L))
        dv_dt == Sub(Div(i, C), Div(Div(v, R), C))
    IN  <<di_dt, dv_dt>>

buck_boost(x, t, L, R, C, Uav, E) ==
    LET i == x[1]
        v == x[2]
        di_dt == Add(Div(Mul(E, Uav), L), Div(Mul(Sub(One, Uav), v), L))
        dv_dt == Sub(Div(Mul(Neg(Sub(One, Uav)), i), C), Div(v, Mul(R, C)))
    IN  <<di_dt, dv_dt>>

\* buck_boost_clamped clamping only below zero (i < 0.0 for i <= 0.0).
buck_boost_clamped_lt(x, t, L, R, C, Uav, E) ==
    LET i == x[1]
        v == x[2]
        di_dt == Add(Div(Mul(E, Uav), L), Div(Mul(Sub(One, Uav), v), L))
        i_eff == Max(i, Zero)
        dv_dt == Sub(Div(Mul(Neg(Sub(One, Uav)), i_eff), C), Div(v, Mul(R, C)))
    IN  IF Lt(i, Zero) /\ Lt(di_dt, Zero)
        THEN <<Zero, dv_dt>>
        ELSE <<di_dt, dv_dt>>

\* buck_boost_clamped with i, not i_eff, in the dv/dt equation.
buck_boost_clamped_noeff(x, t, L, R, C, Uav, E) ==
    LET i == x[1]
        v == x[2]
        di_dt == Add(Div(Mul(E, Uav), L), Div(Mul(Sub(One, Uav), v), L))
        dv_dt == Sub(Div(Mul(Neg(Sub(One, Uav)), i), C), Div(v, Mul(R, C)))
    IN  IF Le(i, Zero) /\ Lt(di_dt, Zero)
        THEN <<Zero, dv_dt>>
        ELSE <<di_dt, dv_dt>>

\* buck_boost_clamped with "or" for "and" in the clamp condition.
buck_boost_clamped_or(x, t, L, R, C, Uav, E) ==
    LET i == x[1]
        v == x[2]
        di_dt == Add(Div(Mul(E, Uav), L), Div(Mul(Sub(One, Uav), v), L))
        i_eff == Max(i, Zero)
        dv_dt == Sub(Div(Mul(Neg(Sub(One, Uav)), i_eff), C), Div(v, Mul(R, C)))
    IN  IF Le(i, Zero) \/ Lt(di_dt, Zero)
        THEN <<Zero, dv_dt>>
        ELSE <<di_dt, dv_dt>>

buck_boost_clamped(x, t, L, R, C, Uav, E) ==
    LET i == x[1]
        v == x[2]
        di_dt == Add(Div(Mul(E, Uav), L), Div(Mul(Sub(One, Uav), v), L))
        i_eff == Max(i, Zero)
        dv_dt == Sub(Div(Mul(Neg(Sub(One, Uav)), i_eff), C), Div(v, Mul(R, C)))
    IN  IF Le(i, Zero) /\ Lt(di_dt, Zero)
        THEN <<Zero, dv_dt>>
        ELSE <<di_dt, dv_dt>>

Topologies == {"buck", "buck_boost", "buck_boost_clamped"}

\* func(y, t, *args) as odeint (or a direct caller) invokes it.
func(f, x, t, a) ==
    CASE f = "buck" -> buck(x, t, a.L, a.R, a.C, a.Uav, a.E)
      [] f = "buck_boost" -> buck_boost(x, t, a.L, a.R, a.C, a.Uav, a.E)
      [] f = "buck_boost_clamped" ->
            buck_boost_clamped(x, t, a.L, a.R, a.C, a.Uav, a.E)

\* The call ended in an exception instead of returning.
Raised(d) == IsRaise(d[1]) \/ IsRaise(d[2])

----------------------------------------------------------------------------
(* Bounds and input sets *)

\* Largest t_stop of a forward time grid (t_ini = 0, t_step = 1).
MaxStop == 3

\* How many times the driver is run on the same inputs.
MaxRuns == 2

\* Largest |i| and |v| of the states a derivative function is called on.
VMax == 2

\* Internal solver steps per output interval.
SubSteps == {1, 2}

MkArgs(l, r, c, u, e) == [L |-> l, R |-> r, C |-> c, Uav |-> u, E |-> e]

\* Parameters of a simulation run, the invalid ones (zero, negative) included.
RunArgs ==
    {MkArgs(Py(l), Py(r), Py(c), u, Py(e)) :
        l \in {-1, 0, 1, 2}, r \in {0, 1, 2}, c \in {0, 1},
        u \in {Py(0), Frac(1, 2), Py(1)}, e \in {0, 12}}

\* Initial conditions [i, v] of a run.
X0s == {<<Py(0), Py(0)>>, <<Py(1), Py(0)>>, <<Py(1), Py(-4)>>}

\* <<t_stop, t_step>> with t_ini = 0: forward grids of 1 .. MaxStop samples and
\* a backward grid of 2 samples.  Empty grids are left out.
Grids == {<<Py(s), Py(1)>> : s \in 1..MaxStop} \cup {<<Py(-2), Py(-1)>>}

\* main's own parameters (lines 39-43) and the state (1, 2).
RefArgs == MkArgs(Frac(1, 1000), Py(47), Frac(50, 1000000), Frac(1, 2), Py(12))

\* Parameters of a direct call of a derivative function.
CallArgs ==
    {MkArgs(Py(l), Py(r), Py(c), u, Py(e)) :
        l \in {-1, 0, 1, 2}, r \in {0, 1, 2}, c \in {0, 1, 2},
        u \in {Py(0), Frac(1, 2), Py(1)}, e \in {0, 12}}
    \cup {RefArgs}

\* State arguments of a direct call: a tuple of Python numbers, or a numpy array.
CallStates ==
    {<<Py(a), Py(b)>> : a \in -VMax..VMax, b \in -VMax..VMax}
    \cup {<<Np(a), Np(b)>> : a \in -VMax..VMax, b \in -VMax..VMax}

----------------------------------------------------------------------------
(* Direct call of a derivative function: func(x, t, L, R, C, Uav, E) *)

Idle ==
    /\ t_ini = Zero /\ t_stop = Zero /\ t_step = One
    /\ tvec = <<>> /\ nsub = 1 /\ k = 0 /\ sol = <<>>
    /\ i_plot = <<>> /\ v_plot = <<>>
    /\ nfev = 0 /\ runs = 0 /\ sol1 = <<>>

InitCall ==
    /\ pc = "call"
    /\ topology \in Topologies
    /\ args \in CallArgs
    /\ x0 \in CallStates
    /\ tcall \in {Py(0), Py(1)}
    /\ ret = <<>>
    /\ exc = "none"
    /\ Idle

CallReturns ==
    /\ pc = "call"
    /\ ~Raised(func(topology, x0, tcall, args))
    /\ ret' = func(topology, x0, tcall, args)
    /\ pc' = "returned"
    /\ UNCHANGED <<topology, args, x0, t_ini, t_stop, t_step, tvec, tcall, nsub,
                   k, sol, i_plot, v_plot, exc, nfev, runs, sol1>>

CallRaises ==
    /\ pc = "call"
    /\ Raised(func(topology, x0, tcall, args))
    /\ exc' = "ZeroDivisionError"
    /\ pc' = "raised"
    /\ UNCHANGED <<topology, args, x0, t_ini, t_stop, t_step, tvec, tcall, nsub,
                   k, sol, i_plot, v_plot, nfev, runs, sol1, ret>>

NextCall == CallReturns \/ CallRaises

SpecCall == InitCall /\ [][NextCall]_vars

----------------------------------------------------------------------------
(* The driver: main() of lines 37-78, with its literals as inputs *)

\* ceil(q) of a finite q.
Ceil(q) == -((-q.n) \div q.d)

\* np.arange(start, stop, step) for step # 0: ceil((stop - start)/step)
\* samples start + j*step, none when that is not positive.
arange(start, stop, step) ==
    LET n == Ceil(Div(Sub(stop, start), step))
    IN  [j \in 1..(IF n > 0 THEN n ELSE 0) |->
            AsNp(Add(start, Mul(Py(j - 1), step)))]

\* The solver between two output times: n explicit steps of size hs from the
\* state y at time tm, each calling func once on the solver's float64 array.
\* raised: a call raised, after nfe calls in all.
RECURSIVE Integrate(_, _, _, _, _, _)
Integrate(f, y, tm, hs, n, a) ==
    IF n = 0 THEN [y |-> y, raised |-> FALSE, nfe |-> 0]
    ELSE LET d == func(f, y, tm, a)
         IN  IF Raised(d) THEN [y |-> y, raised |-> TRUE, nfe |-> 1]
             ELSE LET r == Integrate(f,
                                     <<AsNp(Add(y[1], Mul(hs, d[1]))),
                                       AsNp(Add(y[2], Mul(hs, d[2])))>>,
                                     Add(tm, hs), hs, n - 1, a)
                  IN  [r EXCEPT !.nfe = @ + 1]

\* The solver's work for output row k + 1.
NextRow ==
    Integrate(topology, sol[k], tvec[k],
              Div(Sub(tvec[k + 1], tvec[k]), Np(nsub)), nsub, args)

InitMain ==
    /\ pc = "main"
    /\ topology \in Topologies
    /\ args \in RunArgs
    /\ x0 \in X0s
    /\ t_ini = Zero
    /\ \E g \in Grids : t_stop = g[1] /\ t_step = g[2]
    /\ nsub \in SubSteps
    /\ tvec = <<>> /\ tcall = Zero
    /\ k = 0 /\ sol = <<>>
    /\ i_plot = <<>> /\ v_plot = <<>>
    /\ exc = "none" /\ nfev = 0
    /\ runs = 1 /\ sol1 = <<>>
    /\ ret = <<>>

\* Line 49: t = np.arange(t_ini, t_stop, t_step).
Arange ==
    /\ pc = "main"
    /\ tvec' = arange(t_ini, t_stop, t_step)
    /\ pc' = "odeint"
    /\ UNCHANGED <<topology, args, x0, t_ini, t_stop, t_step, tcall, nsub, k,
                   sol, i_plot, v_plot, exc, nfev, runs, sol1, ret>>

\* Line 56, entry: odeint copies y0 into a float64 array, which is row 0 of
\* its output.
OdeintEnter ==
    /\ pc = "odeint"
    /\ sol' = <<<<AsNp(x0[1]), AsNp(x0[2])>>>>
    /\ k' = 1
    /\ pc' = "integrating"
    /\ UNCHANGED <<topology, args, x0, t_ini, t_stop, t_step, tvec, tcall, nsub,
                   i_plot, v_plot, exc, nfev, runs, sol1, ret>>

\* OdeintStep integrating in place in the caller's y0 (no copy made).
OdeintStep_inplace ==
    /\ pc = "integrating"
    /\ k < Len(tvec)
    /\ LET r == NextRow
       IN  /\ ~r.raised
           /\ sol' = Append(sol, r.y)
           /\ x0' = r.y
           /\ nfev' = nfev + r.nfe
    /\ k' = k + 1
    /\ UNCHANGED <<pc, topology, args, t_ini, t_stop, t_step, tvec, tcall,
                   nsub, i_plot, v_plot, exc, runs, sol1, ret>>

\* Line 56, one output interval: the solver advances from t[k-1] to t[k] and
\* stores the state it reached, finite or not (odeint only warns).
OdeintStep ==
    /\ pc = "integrating"
    /\ k < Len(tvec)
    /\ LET r == NextRow
       IN  /\ ~r.raised
           /\ sol' = Append(sol, r.y)
           /\ nfev' = nfev + r.nfe
    /\ k' = k + 1
    /\ UNCHANGED <<pc, topology, args, x0, t_ini, t_stop, t_step, tvec, tcall,
                   nsub, i_plot, v_plot, exc, runs, sol1, ret>>

\* Line 56: the derivative function raised (ZeroDivisionError); the exception
\* leaves odeint and main, and nothing is returned.
OdeintRaises ==
    /\ pc = "integrating"
    /\ k < Len(tvec)
    /\ LET r == NextRow
       IN  /\ r.raised
           /\ nfev' = nfev + r.nfe
    /\ exc' = "ZeroDivisionError"
    /\ pc' = "raised"
    /\ UNCHANGED <<topology, args, x0, t_ini, t_stop, t_step, tvec, tcall, nsub,
                   k, sol, i_plot, v_plot, runs, sol1, ret>>

\* OdeintReturn slicing from row 1 on (sol[1:, 0], sol[1:, 1]).
OdeintReturn_dropfirst ==
    /\ pc = "integrating"
    /\ k = Len(tvec)
    /\ i_plot' = [j \in 1..(Len(sol) - 1) |-> sol[j + 1][1]]
    /\ v_plot' = [j \in 1..(Len(sol) - 1) |-> sol[j + 1][2]]
    /\ pc' = "plot"
    /\ UNCHANGED <<topology, args, x0, t_ini, t_stop, t_step, tvec, tcall, nsub,
                   k, sol, exc, nfev, runs, sol1, ret>>

\* Lines 56-58: odeint returns sol; main slices the two columns.
OdeintReturn ==
    /\ pc = "integrating"
    /\ k = Len(tvec)
    /\ i_plot' = [j \in 1..Len(sol) |-> sol[j][1]]
    /\ v_plot' = [j \in 1..Len(sol) |-> sol[j][2]]
    /\ pc' = "plot"
    /\ UNCHANGED <<topology, args, x0, t_ini, t_stop, t_step, tvec, tcall, nsub,
                   k, sol, exc, nfev, runs, sol1, ret>>

\* Lines 61-78: the figure is drawn and shown.
Plot ==
    /\ pc = "plot"
    /\ pc' = "done"
    /\ UNCHANGED <<topology, args, x0, t_ini, t_stop, t_step, tvec, tcall, nsub,
                   k, sol, i_plot, v_plot, exc, nfev, runs, sol1, ret>>

\* Lines 81-82 again: main is run once more on the same inputs.
Rerun ==
    /\ pc = "done"
    /\ runs < MaxRuns
    /\ runs' = runs + 1
    /\ sol1' = IF runs = 1 THEN sol ELSE sol1
    /\ pc' = "main"
    /\ tvec' = <<>> /\ k' = 0 /\ sol' = <<>>
    /\ i_plot' = <<>> /\ v_plot' = <<>>
    /\ nfev' = 0
    /\ UNCHANGED <<topology, args, x0, t_ini, t_stop, t_step, tcall, nsub, exc,
                   ret>>

Next ==
    \/ Arange
    \/ OdeintEnter
    \/ OdeintStep
    \/ OdeintRaises
    \/ OdeintReturn
    \/ Plot
    \/ Rerun

Spec == InitMain /\ [][Next]_vars

----------------------------------------------------------------------------
(* Properties of the derivative functions, checked under SpecCall *)

\* The base value E*Uav/L + (1-Uav)*v/L of the current derivative.
BaseDi == Add(Div(Mul(args.E, args.Uav), args.L),
              Div(Mul(Sub(One, args.Uav), x0[2]), args.L))

ClampedReturned == pc = "returned" /\ topology = "buck_boost_clamped"

\* C2: whenever buck_boost_clamped returns, di_dt is exactly 0.0 if i <= 0 and
\* the base value is negative, and the base value unmodified in every other
\* case (i > 0, or i <= 0 with a base value that is not negative).
C2_ClampRule ==
    ClampedReturned =>
        IF Le(x0[1], Zero) /\ Lt(BaseDi, Zero)
        THEN ret[1] = Zero
        ELSE ret[1] = BaseDi

\* C2 witness: a call at i = 0 with a negative base value has returned 0.
C2_Witness ==
    /\ ClampedReturned
    /\ IsZero(x0[1])
    /\ Lt(BaseDi, Zero)
    /\ ret[1] = Zero

\* max(i, 0) as the claim states it.
EffCurrent == IF Lt(x0[1], Zero) THEN Zero ELSE x0[1]

\* C3: whenever buck_boost_clamped returns, dv_dt is
\* -(1-Uav)*max(i,0)/C - v/(R*C) whatever the sign of i, di_dt is the base
\* value computed from the unsubstituted state (or the clamp's 0), and for
\* i <= 0 dv_dt is the value returned at i = 0 with the same v: it does not
\* depend on i.
C3_EffectiveCurrent ==
    ClampedReturned =>
        /\ ret[2] = Sub(Div(Mul(Neg(Sub(One, args.Uav)), EffCurrent), args.C),
                        Div(x0[2], Mul(args.R, args.C)))
        /\ ret[1] \in {BaseDi, Zero}
        /\ Le(x0[1], Zero) =>
              Same(ret[2],
                   func(topology, <<[x0[1] EXCEPT !.n = 0], x0[2]>>, tcall, args)[2])

\* C3 witness: a call at negative current with Uav < 1 (where i and max(i,0)
\* give different dv_dt) has returned.
C3_Witness ==
    /\ ClampedReturned
    /\ Lt(x0[1], Zero)
    /\ Lt(args.Uav, One)
    /\ IsFinite(ret[2])

NonZeroLRC == ~IsZero(args.L) /\ ~IsZero(args.R) /\ ~IsZero(args.C)

\* C4: for L, R, C nonzero buck returns [E*Uav/L - v/L, i/C - v/(R*C)], current
\* derivative first, the same at every time t; at state (1, 2) with main's
\* parameters that is [4000, 900000/47] (about 19148.94).
C4_BuckEquations ==
    (pc = "returned" /\ topology = "buck" /\ NonZeroLRC) =>
        /\ Same(ret[1], Sub(Div(Mul(args.E, args.Uav), args.L), Div(x0[2], args.L)))
        /\ Same(ret[2], Sub(Div(x0[1], args.C), Div(x0[2], Mul(args.R, args.C))))
        /\ ret = func(topology, x0, Add(tcall, One), args)
        /\ (args = RefArgs /\ Same(x0[1], Py(1)) /\ Same(x0[2], Py(2))) =>
              /\ Same(ret[1], Py(4000))
              /\ Same(ret[2], Frac(900000, 47))

\* C4 witness: the regression call buck((1, 2), 0, 1e-3, 47, 50e-6, 0.5, 12)
\* has returned.
C4_Witness ==
    /\ pc = "returned" /\ topology = "buck"
    /\ args = RefArgs /\ x0 = <<Py(1), Py(2)>> /\ tcall = Py(0)

\* What buck_boost returns on the arguments of the call.
UnclampedRet ==
    buck_boost(x0, tcall, args.L, args.R, args.C, args.Uav, args.E)

\* C10: at i > 0 buck_boost_clamped returns exactly what buck_boost returns;
\* the two differ in dv_dt only at i < 0 and in di_dt only at i <= 0 with a
\* negative base di/dt.
C10_ClampedEqualsUnclamped ==
    ClampedReturned =>
        /\ Lt(Zero, x0[1]) => ret = UnclampedRet
        /\ ~Same(ret[2], UnclampedRet[2]) => Lt(x0[1], Zero)
        /\ ~Same(ret[1], UnclampedRet[1]) =>
              (Le(x0[1], Zero) /\ Lt(UnclampedRet[1], Zero))

\* C10 witness: a call at i > 0 with a negative di/dt has returned it unclamped.
C10_Witness ==
    /\ ClampedReturned
    /\ Lt(Zero, x0[1])
    /\ Lt(ret[1], Zero)

----------------------------------------------------------------------------
(* Properties of a simulation run, checked under Spec *)

\* L, R, C > 0.
ValidParams == Lt(Zero, args.L) /\ Lt(Zero, args.R) /\ Lt(Zero, args.C)

\* At least 2 samples, strictly increasing.
ValidGrid ==
    /\ Len(tvec) >= 2
    /\ \A j \in 1..(Len(tvec) - 1) : Lt(tvec[j], tvec[j + 1])

\* The run has handed a trajectory to the plotting step.
Returned == pc \in {"plot", "done"}

\* q > -1e-9, without forming q.n * 10^9.
AboveNegTol(q) ==
    IF q.d > 0 THEN q.n >= 0 \/ (-q.n) <= (q.d - 1) \div 1000000000
    ELSE q.d = 0 /\ q.n > 0

C5_InvalidParametersRejected ==
    (pc # "main" /\ ValidGrid /\ ~ValidParams) =>
        /\ nfev = 0
        /\ Len(sol) <= 1
        /\ ~Returned
        /\ exc \in {"none", "InvalidParameters"}

\* C6 (as claimed): once the grid is built, a grid of fewer than 2 points or
\* one not strictly increasing stops the run (valid parameters or not) with
\* InvalidTimeGrid: integration does not start and no trajectory is returned.
C6_InvalidTimeGridRejected ==
    (pc # "main" /\ ~ValidGrid /\ ValidParams) =>
        /\ pc \in {"odeint", "raised"}
        /\ pc = "raised" => exc = "InvalidTimeGrid"
        /\ sol = <<>>

\* Every sample of the trajectory is a finite number.
AllFinite == \A j \in 1..Len(sol) : IsFinite(sol[j][1]) /\ IsFinite(sol[j][2])

\* C7 (as claimed): a trajectory with a non-finite sample is never returned to
\* the caller or rendered (stated for runs over a valid grid with L, R > 0).
C7_NonFiniteNeverReturned ==
    (Returned /\ ValidGrid /\ Lt(Zero, args.L) /\ Lt(Zero, args.R)) => AllFinite

\* C8: a returned trajectory has one state vector per grid sample, and so has
\* each column handed to the plot; its first element is the initial state.
C8_TrajectoryShape ==
    Returned =>
        /\ Len(sol) = Len(tvec)
        /\ Len(i_plot) = Len(tvec) /\ Len(v_plot) = Len(tvec)
        /\ Same(sol[1][1], x0[1]) /\ Same(sol[1][2], x0[2])
        /\ Same(i_plot[1], x0[1]) /\ Same(v_plot[1], x0[2])

\* C8 witness: a buck_boost_clamped run over a grid of 3 or more samples, from
\* a nonzero initial state, has returned.
C8_Witness ==
    /\ pc = "done"
    /\ topology = "buck_boost_clamped"
    /\ Len(tvec) >= 3
    /\ x0 = <<Py(1), Py(-4)>>

====
